---- MODULE Spec2Model ----
(***************************************************************************)
(* Model of the volume-to-mesh scripts of dani-lbnl/lixo:                  *)
(*   meshpyvista7.py  the multi-region pipeline (label, extract, split by  *)
(*                    connectivity, refine and export every region)        *)
(*   meshpyvista5.py  the single-region decimating pipeline                *)
(* Real numbers are carried in tenths (0.9 is 9, 0.5 is 5, 0.1 is 1).      *)
(* A volume is a sequence of z-slices; the slices of the bounded volumes   *)
(* are one pixel high, so a slice is a row of pixels.                      *)
(***************************************************************************)
EXTENDS Integers, Sequences, FiniteSets, TLC

VARIABLES variant, argv, source, pc, args, volume, labeled_volume,
          current_label, i, num_labels, mesh, components, unique_regions,
          colors, idx, submesh, plotter, saved, log, failedAt

vars == <<variant, argv, source, pc, args, volume, labeled_volume,
          current_label, i, num_labels, mesh, components, unique_regions,
          colors, idx, submesh, plotter, saved, log, failedAt>>

----------------------------------------------------------------------------
(* Bounds of the model *)

\* number of z-slices of a volume (volume.shape[0])
Depth == 2

\* number of pixels of a slice
Width == 3

----------------------------------------------------------------------------
(* Program constants *)

\* --reduction default 0.9, in tenths
DefaultReduction == 9

\* smooth(n_iter=5) of the multi-region pipeline
SmoothIterMulti == 5

\* smooth(n_iter=10) of the single-region pipeline
SmoothIterSingle == 10

\* threshold(0.5), in tenths
ThresholdTenths == 5

\* the selection window region_id -/+ 0.1, in tenths
WindowTenths == 1

\* number of values of np.uint8
Uint8Range == 256

----------------------------------------------------------------------------
(* Input domains *)

\* voxel intensities: background, 8-bit foreground, a 16-bit value
Intensities == {0, 1, 256}

Slices(vals) == [1..Width -> vals]

Volumes(vals) == [1..Depth -> Slices(vals)]

\* binary volumes whose slices all have the same footprint
ExtrudedVolumes == {v \in Volumes({0, 1}) : \A z \in 1..Depth : v[z] = v[1]}

\* binary volumes whose slices alternate between two footprints
AlternatingVolumes ==
    {v \in Volumes({0, 1}) : \A z \in 3..Depth : v[z] = v[z - 2]}

OutObj == <<"a", ".", "o", "b", "j">>

OutStl == <<"a", ".", "s", "t", "l">>

OutDirObj == <<"d", ".", "o", "b", "j", "/", "a", ".", "o", "b", "j">>

\* --output omitted (None) is the empty path: both are falsy at `if args.output`
NoOutput == <<>>

Outputs == {NoOutput, OutObj, OutStl, OutDirObj}

\* --reduction omitted is {}, given is {value in tenths}
Reductions == {{}, {-5}, {0}, {5}, {15}}

Palette == {"red", "blue"}

----------------------------------------------------------------------------
(* Sequence helpers *)

Min(S) == CHOOSE m \in S : \A n \in S : m <= n

RECURSIVE SortedSeq(_)
\* the elements of a finite set of integers in ascending order
SortedSeq(S) == IF S = {} THEN <<>> ELSE <<Min(S)>> \o SortedSeq(S \ {Min(S)})

Range(s) == {s[k] : k \in DOMAIN s}

----------------------------------------------------------------------------
(* label_connected_components *)

\* volume[i].astype(np.uint8): integer values wrap modulo 256
AsUint8(img) == [x \in DOMAIN img |-> img[x] % Uint8Range]

\* a pixel that starts a run of nonzero pixels of a one-pixel-high image
RunStart(img, x) == img[x] # 0 /\ (x = 1 \/ img[x - 1] = 0)

\* cv2.connectedComponents on a one-pixel-high image: every maximal run of
\* nonzero pixels is one component, numbered 1..k in raster order; the
\* returned count includes the background label 0
connectedComponents(img) ==
    [num_labels |-> 1 + Cardinality({x \in DOMAIN img : RunStart(img, x)}),
     labels |-> [x \in DOMAIN img |->
                   IF img[x] = 0 THEN 0
                   ELSE Cardinality({y \in 1..x : RunStart(img, y)})]]

OffsetLabelsNoOffset(labels, cur) == labels

\* labels[labels > 0] += current_label
OffsetLabels(labels, cur) ==
    [x \in DOMAIN labels |->
        IF labels[x] > 0 THEN labels[x] + cur ELSE labels[x]]

ZeroVolume == [z \in 1..Depth |-> [x \in 1..Width |-> 0]]

\* labeled_volume = np.zeros_like(volume); current_label = 1
LabelBegin ==
    /\ pc = "label"
    /\ labeled_volume' = ZeroVolume
    /\ current_label' = 1
    /\ i' = 0
    /\ pc' = "slices"
    /\ UNCHANGED <<variant, argv, source, args, volume, num_labels, mesh,
                   components, unique_regions, colors, idx, submesh, plotter,
                   saved, log, failedAt>>

\* one iteration of `for i in range(volume.shape[0])`
LabelSlice ==
    /\ pc = "slices"
    /\ i < Len(volume)
    /\ LET cc == connectedComponents(AsUint8(volume[i + 1]))
       IN /\ labeled_volume' =
                [labeled_volume EXCEPT ![i + 1] = OffsetLabels(cc.labels, current_label)]
          /\ current_label' = current_label + cc.num_labels - 1
    /\ i' = i + 1
    /\ UNCHANGED <<variant, argv, source, pc, args, volume, num_labels, mesh,
                   components, unique_regions, colors, idx, submesh, plotter,
                   saved, log, failedAt>>

\* the second value of `return labeled_volume, current_label - 1`
ReturnedCount(cur) == cur - 1

\* the loop is over: return to main, which binds the count to num_labels
LabelReturn ==
    /\ pc = "slices"
    /\ i = Len(volume)
    /\ num_labels' = ReturnedCount(current_label)
    /\ pc' = "extract"
    /\ UNCHANGED <<variant, argv, source, args, volume, labeled_volume,
                   current_label, i, mesh, components, unique_regions, colors,
                   idx, submesh, plotter, saved, log, failedAt>>

----------------------------------------------------------------------------
(* Geometry kernels (pyvista), by their documented effect on a mesh.  A mesh
   is the set of surface elements it covers, its face count and the stages it
   has been through. *)

\* raster index of the element of voxel <<z, x>>
ElemIndex(e) == (e[1] - 1) * Width + e[2]

\* pv.wrap(vol).threshold(0.5).extract_surface(): the surface elements of
\* the voxels whose scalar is at least 0.5
ThresholdSurface(vol) ==
    {e \in (1..Len(vol)) \X (1..Width) : 10 * vol[e[1]][e[2]] >= ThresholdTenths}

Abs(n) == IF n < 0 THEN 0 - n ELSE n

Adjacent(a, b) == Abs(a[1] - b[1]) <= 1 /\ Abs(a[2] - b[2]) <= 1

RECURSIVE Grow(_, _)
\* the elements of S connected to the elements of R
Grow(S, R) ==
    LET more == R \cup {e \in S : \E r \in R : Adjacent(e, r)}
    IN IF more = R THEN R ELSE Grow(S, more)

ComponentMin(S, e) == Min({ElemIndex(f) : f \in Grow(S, {e})})

\* the connected regions of S, each named by its first element
Regions(S) == {ComponentMin(S, f) : f \in S}

\* the ways the connectivity filter may number the regions of S: 0, 1, ... in
\* the order of their first element, by size, or in any other order
Numberings(S) ==
    LET ids == 0..(Cardinality(Regions(S)) - 1)
    IN {p \in [ids -> ids] : \A a \in ids, b \in ids : a # b => p[a] # p[b]}

\* mesh.connectivity(): the RegionId array under the numbering p
connectivity(S, p) ==
    [e \in S |-> p[Cardinality({m \in Regions(S) : m < ComponentMin(S, e)})]]

\* np.unique(...): the distinct values in ascending order
unique(f) == SortedSeq({f[e] : e \in DOMAIN f})

SelectWide(rid) ==
    {e \in DOMAIN components :
        /\ 10 * components[e] >= 10 * rid - (10 + WindowTenths)
        /\ 10 * components[e] <= 10 * rid + (10 + WindowTenths)}

\* components.threshold([region_id - 0.1, region_id + 0.1], scalars="RegionId")
Select(rid) ==
    {e \in DOMAIN components :
        /\ 10 * components[e] >= 10 * rid - WindowTenths
        /\ 10 * components[e] <= 10 * rid + WindowTenths}

\* a freshly extracted surface: one polygonal face per element
SurfaceOf(S) == [elems |-> S, faces |-> Cardinality(S), smooth |-> 0,
                 tri |-> FALSE, decimated |-> FALSE, normals |-> FALSE]

smooth(m, n_iter) == [m EXCEPT !.smooth = n_iter]

\* every polygonal face is split into two triangles
triangulate(m) == [m EXCEPT !.faces = 2 * @, !.tri = TRUE]

\* the decimation filter clamps its target reduction to [0, 1]
Clamp(r) == IF r < 0 THEN 0 ELSE IF r > 10 THEN 10 ELSE r

decimate(m, r) ==
    [m EXCEPT !.faces = @ - ((@ * Clamp(r)) \div 10), !.decimated = TRUE]

compute_normals(m) == [m EXCEPT !.normals = TRUE]

----------------------------------------------------------------------------
(* Strings are sequences of characters *)

DotObj == <<".", "o", "b", "j">>

Digit(d) == <<"0", "1", "2", "3", "4", "5", "6", "7", "8", "9">>[d + 1]

RECURSIVE Str(_)
\* f"{idx}" of a non-negative integer
Str(n) == IF n < 10 THEN <<Digit(n)>> ELSE Str(n \div 10) \o <<Digit(n % 10)>>

RECURSIVE Replace(_, _, _)
\* str.replace(old, new): every non-overlapping occurrence, left to right
Replace(s, old, new) ==
    IF Len(s) < Len(old) THEN s
    ELSE IF SubSeq(s, 1, Len(old)) = old
         THEN new \o Replace(SubSeq(s, Len(old) + 1, Len(s)), old, new)
         ELSE <<Head(s)>> \o Replace(Tail(s), old, new)

\* obj_path = args.output.replace(".obj", f"_{idx}.obj")
ObjPath(output, n) == Replace(output, DotObj, <<"_">> \o Str(n) \o DotObj)

----------------------------------------------------------------------------
(* Values of the variables before the program assigns them *)

NoArgs == [output |-> NoOutput, reduction |-> 0]

NoMesh == [elems |-> {}, faces |-> 0, smooth |-> 0, tri |-> FALSE,
           decimated |-> FALSE, normals |-> FALSE]

NoRegions == [e \in {} |-> 0]

NoFailure == [stage |-> "none", region |-> -1]

----------------------------------------------------------------------------
(* main: the steps shared by both pipelines *)

Event(op, region, inp, out) == [op |-> op, region |-> region, inp |-> inp, out |-> out]

\* a geometry-kernel call raises: nothing catches it, the run ends
Raise(stage) ==
    /\ pc' = "failed"
    /\ failedAt' = [stage |-> stage, region |-> idx]
    /\ UNCHANGED <<variant, argv, source, args, volume, labeled_volume,
                   current_label, i, num_labels, mesh, components,
                   unique_regions, colors, idx, submesh, plotter, saved, log>>

\* args = parser.parse_args(): --reduction is a float with default 0.9 and
\* no range check (meshpyvista5.py lines 46 to 61 are the same)
ParseArgs ==
    /\ pc = "parse"
    /\ args' = [output |-> argv.output,
                reduction |-> IF argv.reduction = {} THEN DefaultReduction
                              ELSE CHOOSE r \in argv.reduction : TRUE]
    /\ pc' = "load"
    /\ UNCHANGED <<variant, argv, source, volume, labeled_volume,
                   current_label, i, num_labels, mesh, components,
                   unique_regions, colors, idx, submesh, plotter, saved, log,
                   failedAt>>

\* volume = read_multi_tiff_pillow(args.input) or create_sphere_array(50)
\* (meshpyvista5.py lines 63 to 68 are the same)
Load ==
    /\ pc = "load"
    /\ volume' = source
    /\ pc' = IF variant = "multi" THEN "label" ELSE "extract"
    /\ UNCHANGED <<variant, argv, source, args, labeled_volume, current_label,
                   i, num_labels, mesh, components, unique_regions, colors,
                   idx, submesh, plotter, saved, log, failedAt>>

----------------------------------------------------------------------------
(* main of meshpyvista7.py, after labeling *)

\* mesh = pv.wrap(labeled_volume).threshold(0.5).extract_surface()
Extract7 ==
    /\ variant = "multi"
    /\ pc = "extract"
    /\ mesh' = ThresholdSurface(labeled_volume)
    /\ pc' = "connect"
    /\ UNCHANGED <<variant, argv, source, args, volume, labeled_volume,
                   current_label, i, num_labels, components, unique_regions,
                   colors, idx, submesh, plotter, saved, log, failedAt>>

\* components = mesh.connectivity();
\* unique_regions = np.unique(components.point_data["RegionId"]);
\* colors = random_colors(len(unique_regions)); plotter = pv.Plotter().
\* The filter has nothing to label on an empty surface: its output then
\* carries an empty RegionId array or none at all, and reading a missing
\* array raises KeyError
Connect7 ==
    /\ variant = "multi"
    /\ pc = "connect"
    /\ \/ /\ \E p \in Numberings(mesh) : components' = connectivity(mesh, p)
          /\ unique_regions' = unique(components')
          /\ colors' \in [1..Len(unique_regions') -> Palette]
          /\ plotter' = <<>>
          /\ idx' = 0
          /\ pc' = "loop"
          /\ UNCHANGED <<variant, argv, source, args, volume, labeled_volume,
                         current_label, i, num_labels, mesh, submesh, saved,
                         log, failedAt>>
       \/ /\ mesh = {}
          /\ Raise("RegionId")

\* for idx, region_id in enumerate(unique_regions): submesh = threshold(...)
LoopSelect7 ==
    /\ variant = "multi"
    /\ pc = "loop"
    /\ idx < Len(unique_regions)
    /\ submesh' = SurfaceOf(Select(unique_regions[idx + 1]))
    /\ log' = Append(log, Event("select", idx, NoMesh, submesh'))
    /\ pc' = "smooth"
    /\ UNCHANGED <<variant, argv, source, args, volume, labeled_volume,
                   current_label, i, num_labels, mesh, components,
                   unique_regions, colors, idx, plotter, saved, failedAt>>

\* the loop is exhausted
LoopExit7 ==
    /\ variant = "multi"
    /\ pc = "loop"
    /\ idx = Len(unique_regions)
    /\ pc' = "show"
    /\ UNCHANGED <<variant, argv, source, args, volume, labeled_volume,
                   current_label, i, num_labels, mesh, components,
                   unique_regions, colors, idx, submesh, plotter, saved, log,
                   failedAt>>

\* the kernel call `op` of the refinement chain returns `out`
Stage(op, out, next) ==
    /\ submesh' = out
    /\ log' = Append(log, Event(op, idx, submesh, out))
    /\ pc' = next
    /\ UNCHANGED <<variant, argv, source, args, volume, labeled_volume,
                   current_label, i, num_labels, mesh, components,
                   unique_regions, colors, idx, plotter, saved, failedAt>>

\* submesh.smooth(n_iter=5)
Smooth7 ==
    /\ variant = "multi"
    /\ pc = "smooth"
    /\ \/ Stage("smooth", smooth(submesh, SmoothIterMulti), "triangulate")
       \/ Raise("smooth")

\* .triangulate()
Triangulate7 ==
    /\ variant = "multi"
    /\ pc = "triangulate"
    /\ \/ Stage("triangulate", triangulate(submesh), "decimate")
       \/ Raise("triangulate")

DecimateWantedAlways(r) == TRUE

\* if args.reduction > 0:
DecimateWanted(r) == r > 0

\* if args.reduction > 0: submesh = submesh.decimate(args.reduction)
Decimate7 ==
    /\ variant = "multi"
    /\ pc = "decimate"
    /\ \/ /\ DecimateWanted(args.reduction)
          /\ Stage("decimate", decimate(submesh, args.reduction), "normals")
       \/ /\ DecimateWanted(args.reduction)
          /\ Raise("decimate")
       \/ /\ ~DecimateWanted(args.reduction)
          /\ pc' = "normals"
          /\ UNCHANGED <<variant, argv, source, args, volume, labeled_volume,
                         current_label, i, num_labels, mesh, components,
                         unique_regions, colors, idx, submesh, plotter, saved,
                         log, failedAt>>

\* the mesh goes to the plotter without its normals
Normals7Skipped ==
    /\ variant = "multi"
    /\ pc = "normals"
    /\ pc' = "add"
    /\ UNCHANGED <<variant, argv, source, args, volume, labeled_volume,
                   current_label, i, num_labels, mesh, components,
                   unique_regions, colors, idx, submesh, plotter, saved, log,
                   failedAt>>

\* submesh = submesh.compute_normals()
Normals7 ==
    /\ variant = "multi"
    /\ pc = "normals"
    /\ \/ Stage("normals", compute_normals(submesh), "add")
       \/ Raise("normals")

\* plotter.add_mesh(submesh, color=colors[idx]); the plotter refuses a mesh
\* without geometry
AddMesh7 ==
    /\ variant = "multi"
    /\ pc = "add"
    /\ \/ /\ submesh.faces > 0
          /\ plotter' = Append(plotter, [mesh |-> submesh, color |-> colors[idx + 1],
                                         region |-> idx])
          /\ log' = Append(log, Event("add_mesh", idx, submesh, submesh))
          /\ pc' = "save"
          /\ UNCHANGED <<variant, argv, source, args, volume, labeled_volume,
                         current_label, i, num_labels, mesh, components,
                         unique_regions, colors, idx, submesh, saved, failedAt>>
       \/ /\ submesh.faces = 0
          /\ Raise("add_mesh")

\* if args.output: submesh.save(args.output.replace(".obj", f"_{idx}.obj"));
\* then the next iteration
Save7 ==
    /\ variant = "multi"
    /\ pc = "save"
    /\ \/ /\ args.output # NoOutput
          /\ saved' = Append(saved, [path |-> ObjPath(args.output, idx),
                                     mesh |-> submesh, region |-> idx])
          /\ log' = Append(log, Event("save", idx, submesh, submesh))
       \/ /\ args.output = NoOutput
          /\ UNCHANGED <<saved, log>>
    /\ idx' = idx + 1
    /\ pc' = "loop"
    /\ UNCHANGED <<variant, argv, source, args, volume, labeled_volume,
                   current_label, i, num_labels, mesh, components,
                   unique_regions, colors, submesh, plotter, failedAt>>

\* plotter.show()
Show7 ==
    /\ variant = "multi"
    /\ pc = "show"
    /\ pc' = "done"
    /\ UNCHANGED <<variant, argv, source, args, volume, labeled_volume,
                   current_label, i, num_labels, mesh, components,
                   unique_regions, colors, idx, submesh, plotter, saved, log,
                   failedAt>>

----------------------------------------------------------------------------
(* main of meshpyvista5.py, after loading *)

\* mesh = pv.wrap(volume).threshold(0.5).extract_surface()
Extract5 ==
    /\ variant = "single"
    /\ pc = "extract"
    /\ mesh' = ThresholdSurface(volume)
    /\ submesh' = SurfaceOf(mesh')
    /\ log' = Append(log, Event("select", idx, NoMesh, submesh'))
    /\ pc' = "smooth"
    /\ UNCHANGED <<variant, argv, source, args, volume, labeled_volume,
                   current_label, i, num_labels, components, unique_regions,
                   colors, idx, plotter, saved, failedAt>>

\* smoothed_mesh = mesh.smooth(n_iter=10)
Smooth5 ==
    /\ variant = "single"
    /\ pc = "smooth"
    /\ \/ Stage("smooth", smooth(submesh, SmoothIterSingle), "triangulate")
       \/ Raise("smooth")

\* tri_mesh = smoothed_mesh.triangulate()
Triangulate5 ==
    /\ variant = "single"
    /\ pc = "triangulate"
    /\ \/ Stage("triangulate", triangulate(submesh), "decimate")
       \/ Raise("triangulate")

\* decimated_mesh = tri_mesh.decimate(args.reduction), whatever the factor
Decimate5 ==
    /\ variant = "single"
    /\ pc = "decimate"
    /\ \/ Stage("decimate", decimate(submesh, args.reduction), "normals")
       \/ Raise("decimate")

\* final_mesh = decimated_mesh.compute_normals()
Normals5 ==
    /\ variant = "single"
    /\ pc = "normals"
    /\ \/ Stage("normals", compute_normals(submesh), "save")
       \/ Raise("normals")

\* if args.output: final_mesh.save(args.output)
Save5 ==
    /\ variant = "single"
    /\ pc = "save"
    /\ \/ /\ args.output # NoOutput
          /\ saved' = Append(saved, [path |-> args.output, mesh |-> submesh,
                                     region |-> idx])
          /\ log' = Append(log, Event("save", idx, submesh, submesh))
       \/ /\ args.output = NoOutput
          /\ UNCHANGED <<saved, log>>
    /\ pc' = "add"
    /\ UNCHANGED <<variant, argv, source, args, volume, labeled_volume,
                   current_label, i, num_labels, mesh, components,
                   unique_regions, colors, idx, submesh, plotter, failedAt>>

\* plotter = pv.Plotter(); plotter.add_mesh(final_mesh, color='white')
AddMesh5 ==
    /\ variant = "single"
    /\ pc = "add"
    /\ \/ /\ submesh.faces > 0
          /\ plotter' = <<[mesh |-> submesh, color |-> "white", region |-> idx]>>
          /\ log' = Append(log, Event("add_mesh", idx, submesh, submesh))
          /\ pc' = "show"
          /\ UNCHANGED <<variant, argv, source, args, volume, labeled_volume,
                         current_label, i, num_labels, mesh, components,
                         unique_regions, colors, idx, submesh, saved, failedAt>>
       \/ /\ submesh.faces = 0
          /\ Raise("add_mesh")

\* plotter.show()
Show5 ==
    /\ variant = "single"
    /\ pc = "show"
    /\ pc' = "done"
    /\ UNCHANGED <<variant, argv, source, args, volume, labeled_volume,
                   current_label, i, num_labels, mesh, components,
                   unique_regions, colors, idx, submesh, plotter, saved, log,
                   failedAt>>

----------------------------------------------------------------------------
(* Specifications *)

\* label_connected_components called on a volume of arbitrary intensities
InitLabel ==
    /\ variant = "multi"
    /\ argv = [output |-> NoOutput, reduction |-> {}]
    /\ source \in Volumes(Intensities)
    /\ pc = "label"
    /\ args = [output |-> NoOutput, reduction |-> DefaultReduction]
    /\ volume = source
    /\ labeled_volume = <<>>
    /\ current_label = 0
    /\ i = 0
    /\ num_labels = -1
    /\ mesh = {}
    /\ components = NoRegions
    /\ unique_regions = <<>>
    /\ colors = <<>>
    /\ idx = 0
    /\ submesh = NoMesh
    /\ plotter = <<>>
    /\ saved = <<>>
    /\ log = <<>>
    /\ failedAt = NoFailure

NextLabel == LabelBegin \/ LabelSlice \/ LabelReturn

SpecLabel == InitLabel /\ [][NextLabel]_vars

\* the command lines and input volumes of a run of either script
PipeInputs ==
    \/ /\ source \in ExtrudedVolumes
       /\ argv \in [output : Outputs, reduction : Reductions]
    \/ /\ source \in AlternatingVolumes
       /\ argv = [output |-> OutObj, reduction |-> {}]

\* either script is started
Init ==
    /\ variant \in {"multi", "single"}
    /\ PipeInputs
    /\ pc = "parse"
    /\ args = NoArgs
    /\ volume = <<>>
    /\ labeled_volume = <<>>
    /\ current_label = 0
    /\ i = 0
    /\ num_labels = -1
    /\ mesh = {}
    /\ components = NoRegions
    /\ unique_regions = <<>>
    /\ colors = <<>>
    /\ idx = 0
    /\ submesh = NoMesh
    /\ plotter = <<>>
    /\ saved = <<>>
    /\ log = <<>>
    /\ failedAt = NoFailure

Next ==
    \/ ParseArgs
    \/ Load
    \/ LabelBegin
    \/ LabelSlice
    \/ LabelReturn
    \/ Extract7
    \/ Connect7
    \/ LoopSelect7
    \/ LoopExit7
    \/ Smooth7
    \/ Triangulate7
    \/ Decimate7
    \/ Normals7
    \/ AddMesh7
    \/ Save7
    \/ Show7
    \/ Extract5
    \/ Smooth5
    \/ Triangulate5
    \/ Decimate5
    \/ Normals5
    \/ Save5
    \/ AddMesh5
    \/ Show5

Spec == Init /\ [][Next]_vars

----------------------------------------------------------------------------
(* Properties *)

Voxels == (1..Depth) \X (1..Width)

Max(S) == CHOOSE m \in S : \A n \in S : n <= m

\* label_connected_components of meshpyvista7.py has returned
Returned == variant = "multi" /\ pc \notin {"parse", "load", "label", "slices"}

\* the local labels the 2D labeling primitive gave slice z
LocalLabels(z) == connectedComponents(AsUint8(volume[z])).labels

\* C1: in the returned volume no positive label occurs in two different
\* z-slices, a voxel is labeled positive exactly when the 2D primitive labeled
\* it, and within a slice two such voxels share a label exactly when the
\* primitive put them in the same local component.
C1_LabelsGloballyUnique ==
    Returned =>
        /\ \A z \in 1..Depth, y \in 1..Depth :
              z # y => Range(labeled_volume[z]) \cap Range(labeled_volume[y]) \subseteq {0}
        /\ \A z \in 1..Depth :
              LET local == LocalLabels(z)
                  final == labeled_volume[z]
              IN /\ \A x \in 1..Width : final[x] > 0 <=> local[x] > 0
                 /\ \A x \in 1..Width, y \in 1..Width :
                       (local[x] > 0 /\ local[y] > 0)
                           => ((final[x] = final[y]) <=> (local[x] = local[y]))

\* two touching voxels of adjacent slices carry different labels, and one slice
\* holds two voxels of one component and a voxel of another
C1_Witness ==
    /\ Returned
    /\ \E x \in 1..Width :
          /\ labeled_volume[1][x] > 0
          /\ labeled_volume[2][x] > 0
          /\ labeled_volume[1][x] # labeled_volume[2][x]
    /\ \E z \in 1..Depth, x \in 1..Width, y \in 1..Width :
          /\ x # y
          /\ labeled_volume[z][x] > 0
          /\ labeled_volume[z][x] = labeled_volume[z][y]
    /\ \E z \in 1..Depth, x \in 1..Width, y \in 1..Width :
          /\ labeled_volume[z][x] > 0
          /\ labeled_volume[z][y] > 0
          /\ labeled_volume[z][x] # labeled_volume[z][y]

MaxLabel(vol) == Max({0} \cup {vol[e[1]][e[2]] : e \in Voxels})

\* C2: the returned component count equals the maximum of the returned
\* labeled volume (labels numbered compactly from 1).
C2_CountIsMaxLabel == Returned => num_labels = MaxLabel(labeled_volume)

\* C10: a voxel is labeled 0 exactly when its input value is 0 and positive
\* exactly when its input value is nonzero.
C10_ForegroundKept ==
    Returned =>
        \A e \in Voxels :
            /\ labeled_volume[e[1]][e[2]] = 0 <=> volume[e[1]][e[2]] = 0
            /\ labeled_volume[e[1]][e[2]] > 0 <=> volume[e[1]][e[2]] # 0

ZeroForeground == \A e \in Voxels : source[e[1]][e[2]] = 0

\* C3: for a volume without foreground the multi-region pipeline never
\* fails, counts 0 components, iterates no region, registers no mesh and
\* writes no file.
C3_EmptyVolume ==
    (variant = "multi" /\ ZeroForeground) =>
        /\ pc # "failed"
        /\ Returned => num_labels = 0
        /\ unique_regions = <<>>
        /\ log = <<>>
        /\ plotter = <<>>
        /\ saved = <<>>

\* the kernel calls of the refinement of one region, and its registration
RefinementStages == {"smooth", "triangulate", "decimate", "normals", "add_mesh"}

Rendered(k) == \E p \in DOMAIN plotter : plotter[p].region = k

\* C4: a failing refinement of one region does not end the multi-region run
\* in a failed state, and every other region is rendered when the run is over.
C4_SkipAndContinue ==
    variant = "multi" =>
        /\ ~(pc = "failed" /\ failedAt.stage \in RefinementStages)
        /\ pc = "done" =>
              \A k \in 0..(Len(unique_regions) - 1) :
                  k # failedAt.region => Rendered(k)

OutOfRange(red) == \E r \in red : r < 0 \/ r > 10

\* C5: with a reduction factor outside [0, 1] nothing is loaded, labeled,
\* extracted, rendered or written.
C5_RejectedBeforeProcessing ==
    OutOfRange(argv.reduction) =>
        /\ volume = <<>>
        /\ labeled_volume = <<>>
        /\ mesh = {}
        /\ log = <<>>
        /\ plotter = <<>>
        /\ saved = <<>>

Dots(path) == {k \in DOMAIN path : path[k] = "."}

\* the path with _n inserted before its extension
InsertBeforeExt(path, n) ==
    IF Dots(path) = {} THEN path \o <<"_">> \o Str(n)
    ELSE SubSeq(path, 1, Max(Dots(path)) - 1) \o <<"_">> \o Str(n)
            \o SubSeq(path, Max(Dots(path)), Len(path))

\* C6: the k-th file written is the file of region k-1, its name is the base
\* path with that index inserted before the extension, and no two files
\* written share a name.
C6_IndexedNames ==
    variant = "multi" =>
        /\ \A k \in DOMAIN saved :
              /\ saved[k].region = k - 1
              /\ saved[k].path = InsertBeforeExt(args.output, k - 1)
        /\ \A k \in DOMAIN saved, l \in DOMAIN saved :
              k # l => saved[k].path # saved[l].path

Ops(op) == {p \in DOMAIN log : log[p].op = op}

\* the mesh handed to normal computation at log position p is exactly the
\* output of the triangulation logged right before it
NormalsOfTriangulated(p) ==
    /\ p > 1
    /\ log[p - 1].op = "triangulate"
    /\ log[p - 1].region = log[p].region
    /\ log[p].inp = log[p - 1].out

\* the mesh handed to normal computation at log position p is the output of
\* a decimation of the triangulated mesh that did not add triangles
NormalsOfDecimated(p) ==
    /\ p > 2
    /\ log[p - 1].op = "decimate"
    /\ log[p - 2].op = "triangulate"
    /\ log[p - 1].region = log[p].region
    /\ log[p - 1].inp = log[p - 2].out
    /\ log[p].inp = log[p - 1].out
    /\ log[p - 1].out.faces <= log[p - 1].inp.faces

At(op, k) == {p \in Ops(op) : log[p].region = k}

\* the event at log position p (a render or a save) handles a mesh that went
\* through smooth, triangulate, decimate if at all, compute-normals, in that
\* order and once each, each stage working on the output of the one before
Refined(p) ==
    LET k == log[p].region
    IN /\ \E a \in At("smooth", k), b \in At("triangulate", k), c \in At("normals", k) :
             /\ a < b /\ b < c /\ c < p
             /\ At("smooth", k) = {a}
             /\ At("triangulate", k) = {b}
             /\ At("normals", k) = {c}
             /\ log[b].inp = log[a].out
             /\ log[p].inp = log[c].out
             /\ \A d \in At("decimate", k) :
                   /\ At("decimate", k) = {d}
                   /\ b < d /\ d < c
                   /\ log[d].inp = log[b].out
                   /\ log[c].inp = log[d].out
             /\ At("decimate", k) = {} => log[c].inp = log[b].out
       /\ log[p].inp.smooth > 0 /\ log[p].inp.tri /\ log[p].inp.normals

\* C8: every rendered or saved mesh went through smooth, triangulate,
\* decimate (when not skipped), compute-normals in that order; the regions of
\* the multi-region pipeline are handled one after the other, a region being
\* rendered and exported before the next is selected.
C8_RefinementOrder ==
    /\ \A p \in Ops("add_mesh") \cup Ops("save") : Refined(p)
    /\ \A q \in DOMAIN plotter : plotter[q].mesh.normals /\ At("add_mesh", plotter[q].region) # {}
    /\ \A q \in DOMAIN saved : saved[q].mesh.normals /\ At("save", saved[q].region) # {}
    /\ \A p \in DOMAIN log, q \in DOMAIN log : p < q => log[p].region <= log[q].region
    /\ \A q \in Ops("select") :
          log[q].region > 0 =>
              /\ \E p \in At("add_mesh", log[q].region - 1) : p < q
              /\ args.output # NoOutput => \E p \in At("save", log[q].region - 1) : p < q

\* two regions were refined with decimation, rendered and exported
C8_Witness ==
    /\ variant = "multi"
    /\ pc = "done"
    /\ Len(plotter) = 2
    /\ Len(saved) = 2
    /\ At("decimate", 1) # {}

\* the multi-region pipeline has split the surface
Partitioned ==
    variant = "multi"
        /\ pc \notin {"parse", "load", "label", "slices", "extract", "connect"}

\* C9: one patch per distinct region identifier, visited in strictly
\* ascending identifier order; every surface element lies in exactly one
\* patch; as many colors as patches, the i-th patch rendered in the i-th color.
C9_Partition ==
    Partitioned =>
        /\ \A k \in DOMAIN unique_regions, l \in DOMAIN unique_regions :
              k < l => unique_regions[k] < unique_regions[l]
        /\ Range(unique_regions) = {components[e] : e \in mesh}
        /\ \A k \in DOMAIN unique_regions : Select(unique_regions[k]) # {}
        /\ \A e \in mesh :
              Cardinality({k \in DOMAIN unique_regions :
                              e \in Select(unique_regions[k])}) = 1
        /\ Len(colors) = Len(unique_regions)
        /\ \A p \in Ops("select") :
              log[p].out.elems = Select(unique_regions[log[p].region + 1])
        /\ \A q \in DOMAIN plotter :
              /\ plotter[q].region = q - 1
              /\ plotter[q].color = colors[q]
              /\ plotter[q].mesh.elems = Select(unique_regions[q])

\* two patches, both rendered, in different colors
C9_Witness ==
    /\ Partitioned
    /\ Len(unique_regions) = 2
    /\ Len(plotter) = 2
    /\ plotter[1].color # plotter[2].color
    /\ plotter[1].mesh.elems \cap plotter[2].mesh.elems = {}

====
